---- MODULE Spec2Model ----
(***************************************************************************)
(* A model of julia_set.c: main, julia_rgb (the OpenMP parallel fill),     *)
(* julia_point (the escape-time evaluator) and tga_write (the encoder).    *)
(*                                                                         *)
(* C float values are modelled as IEEE-754 binary32 numbers with           *)
(* round-to-nearest-even after every operation (FLT_EVAL_METHOD 0, no      *)
(* contraction).  A float is a record [s, m, e] standing for               *)
(* (-1)^s * m * 2^e with m = 0 or 2^23 <= m < 2^24.  Infinities, NaNs and  *)
(* subnormals are not represented; FInRange states the window in which     *)
(* the representation is exact and is checked on the evaluator's state.    *)
(***************************************************************************)
EXTENDS Integers, Naturals, Sequences, FiniteSets, TLC

(***************************************************************************)
(* binary32 arithmetic                                                     *)
(***************************************************************************)

Pow2(n) == 2 ^ n

\* The number of bits of m.
BitLenOf[m \in Nat] == IF m = 0 THEN 0 ELSE 1 + BitLenOf[m \div 2]

BitLen(m) == BitLenOf[m]

FZero == [s |-> 0, m |-> 0, e |-> 0]

\* Round the exact magnitude m * 2^e (plus a nonzero tail below m's last bit
\* when st) to 24 significant bits, ties to even.
RoundNorm(s, m, e, st) ==
    IF m = 0 THEN FZero
    ELSE LET nb == BitLen(m) IN
         IF nb <= 24
         THEN [s |-> s, m |-> m * Pow2(24 - nb), e |-> e - (24 - nb)]
         ELSE LET r    == nb - 24
                  q    == m \div Pow2(r)
                  rem  == m % Pow2(r)
                  half == Pow2(r - 1)
                  up   == rem > half \/ (rem = half /\ (st \/ q % 2 = 1))
                  q2   == IF up THEN q + 1 ELSE q
              IN IF q2 = Pow2(24)
                 THEN [s |-> s, m |-> Pow2(23), e |-> e + r + 1]
                 ELSE [s |-> s, m |-> q2, e |-> e + r]

\* (float)(n) for an int n.
FromInt(n) ==
    IF n < 0 THEN RoundNorm(1, 0 - n, 0, FALSE) ELSE RoundNorm(0, n, 0, FALSE)

FNeg(a) == IF a.m = 0 THEN a ELSE [a EXCEPT !.s = 1 - a.s]

\* a * b: the 48-bit product of the mantissas in 12-bit limbs.
FMul(a, b) ==
    IF a.m = 0 \/ b.m = 0 THEN FZero
    ELSE LET ah == a.m \div 4096
             al == a.m % 4096
             bh == b.m \div 4096
             bl == b.m % 4096
             hi  == ah * bh
             mid == ah * bl + al * bh
             lo  == al * bl
             L   == (mid % 4096) * 4096 + lo
             H   == hi + (mid \div 4096) + (L \div Pow2(24))
             L24 == L % Pow2(24)
             T   == H * 64 + (L24 \div Pow2(18))
             st  == (L24 % Pow2(18)) # 0
         IN RoundNorm((a.s + b.s) % 2, T, a.e + b.e + 18, st)

\* |a| >= |b| for nonzero normalised a, b.
MagGe(a, b) == a.e > b.e \/ (a.e = b.e /\ a.m >= b.m)

\* a + b, with three guard bits and a sticky bit.
FAdd(a, b) ==
    IF a.m = 0 THEN (IF b.m = 0 THEN FZero ELSE b)
    ELSE IF b.m = 0 THEN a
    ELSE LET big   == IF MagGe(a, b) THEN a ELSE b
             small == IF MagGe(a, b) THEN b ELSE a
             d     == big.e - small.e
             Mb    == big.m * 8
             Ms    == IF d > 27 THEN 0 ELSE (small.m * 8) \div Pow2(d)
             st    == IF d > 27 THEN TRUE ELSE ((small.m * 8) % Pow2(d)) # 0
         IN IF big.s = small.s
            THEN RoundNorm(big.s, Mb + Ms, big.e - 3, st)
            ELSE IF st
                 THEN RoundNorm(big.s, Mb - Ms - 1, big.e - 3, TRUE)
                 ELSE RoundNorm(big.s, Mb - Ms, big.e - 3, FALSE)

FSub(a, b) == FAdd(a, FNeg(b))

\* Long division: x = <<r, q, dv, n>>, n more quotient bits of r / dv appended
\* to q; the result is <<quotient, remainder>>.
LongDivOf[x \in Nat \X Nat \X Nat \X Nat] ==
    IF x[4] = 0 THEN <<x[2], x[1]>>
    ELSE IF 2 * x[1] >= x[3]
         THEN LongDivOf[<<2 * x[1] - x[3], 2 * x[2] + 1, x[3], x[4] - 1>>]
         ELSE LongDivOf[<<2 * x[1], 2 * x[2], x[3], x[4] - 1>>]

LongDiv(r, q, dv, n) == LongDivOf[<<r, q, dv, n>>]

\* a / b for b # 0.
FDiv(a, b) ==
    IF a.m = 0 THEN FZero
    ELSE LET qr == LongDiv(a.m % b.m, a.m \div b.m, b.m, 26)
         IN RoundNorm((a.s + b.s) % 2, qr[1], a.e - b.e - 26, qr[2] # 0)

\* a < b
FLt(a, b) ==
    IF a.m = 0 THEN b.m # 0 /\ b.s = 0
    ELSE IF b.m = 0 THEN a.s = 1
    ELSE IF a.s # b.s THEN a.s = 1
    ELSE IF a.s = 0 THEN ~MagGe(a, b)
    ELSE ~MagGe(b, a)

\* a == b
FEq(a, b) == (a.m = 0 /\ b.m = 0) \/ (a.m # 0 /\ a = b)

\* The window in which [s, m, e] is an exact picture of a binary32 value whose
\* squares and pairwise products are normal numbers too.
FInRange(a) == a.m = 0 \/ (a.m >= Pow2(23) /\ a.m < Pow2(24) /\ a.e >= -70 /\ a.e <= -4)

(***************************************************************************)
(* julia_point: the escape-time evaluator                                  *)
(***************************************************************************)

\* float ci = 0.156; float cr = -0.8;  (the double literals rounded to float)
ci == [s |-> 0, m |-> 10468983, e |-> -26]

cr == [s |-> 1, m |-> 13421773, e |-> -24]

\* MapCoord with the two weights exchanged.
MapCoord_swapped(n, lo, hi, idx) ==
    FDiv(FAdd(FMul(FromInt(idx), lo), FMul(FromInt(n - idx - 1), hi)), FromInt(n - 1))

\* x = ((float)(w - i - 1) * xl + (float)(i) * xr) / (float)(w - 1), and the
\* same expression in h, j, yb, yt for y.
MapCoord(n, lo, hi, idx) ==
    FDiv(FAdd(FMul(FromInt(n - idx - 1), lo), FMul(FromInt(idx), hi)), FromInt(n - 1))

\* t = ar*ar - ai*ai + cr; ai = ar*ai + ai*ar + ci; ar = t;
Update(a) ==
    [ar |-> FAdd(FSub(FMul(a.ar, a.ar), FMul(a.ai, a.ai)), cr),
     ai |-> FAdd(FAdd(FMul(a.ar, a.ai), FMul(a.ai, a.ar)), ci)]

\* if (1000 < ar * ar + ai * ai)
Escapes(a) == FLt(FromInt(1000), FAdd(FMul(a.ar, a.ar), FMul(a.ai, a.ai)))

\* LoopCond with <= for <.
LoopCond_off(k) == k <= 200

\* for (k = 0; k < 200; k++)
LoopCond(k) == k < 200

\* One trip through the for loop from loop state st = [a, k, ret]; ret is -1
\* while the function has not returned, then the value returned.
LoopStep(st) ==
    IF st.ret # -1 THEN st
    ELSE IF ~LoopCond(st.k) THEN [st EXCEPT !.ret = 1]
    ELSE IF Escapes(Update(st.a))
         THEN [a |-> Update(st.a), k |-> st.k, ret |-> 0]
         ELSE [a |-> Update(st.a), k |-> st.k + 1, ret |-> -1]

\* More trips than the loop can take before it returns.
LoopFuel == 256

FloatT == [s : {0, 1}, m : Nat, e : Int]

LoopStateT == [a : [ar : FloatT, ai : FloatT], k : Nat, ret : {-1, 0, 1}]

\* x[2] trips from loop state x[1], by halving (the evaluation stays shallow).
RunLoop[x \in LoopStateT \X Nat] ==
    IF x[2] = 0 \/ x[1].ret # -1 THEN x[1]
    ELSE IF x[2] = 1 THEN LoopStep(x[1])
    ELSE RunLoop[<<RunLoop[<<x[1], x[2] \div 2>>], x[2] - (x[2] \div 2)>>]

julia_point(ww, hh, xl, xr, yb, yt, i, j) ==
    RunLoop[<<[a |-> [ar |-> MapCoord(ww, xl, xr, i), ai |-> MapCoord(hh, yb, yt, j)],
               k |-> 0, ret |-> -1], LoopFuel>>].ret

\* main's plane bounds: xl = -1.5, xr = +1.5, yb = -1.5, yt = +1.5.
MainBounds ==
    [xl |-> FNeg(FDiv(FromInt(3), FromInt(2))), xr |-> FDiv(FromInt(3), FromInt(2)),
     yb |-> FNeg(FDiv(FromInt(3), FromInt(2))), yt |-> FDiv(FromInt(3), FromInt(2))]

\* A second window of the plane, with corners in and out of the set:
\* xl = 0, xr = 1.5, yb = -1.5, yt = -0.75.
ZoomBounds ==
    [xl |-> FZero, xr |-> FDiv(FromInt(3), FromInt(2)),
     yb |-> FNeg(FDiv(FromInt(3), FromInt(2))), yt |-> FNeg(FDiv(FromInt(3), FromInt(4)))]

\* A window whose limits are not multiples of a power of two:
\* xl = yb = -0.9f, xr = yt = 1.7f.
SkewBounds ==
    [xl |-> [s |-> 1, m |-> 15099494, e |-> -24], xr |-> [s |-> 0, m |-> 14260634, e |-> -23],
     yb |-> [s |-> 1, m |-> 15099494, e |-> -24], yt |-> [s |-> 0, m |-> 14260634, e |-> -23]]

(***************************************************************************)
(* State                                                                   *)
(***************************************************************************)

\* One call of julia_point, one loop trip per step.
VARIABLES p_pc, p_in, p_x, p_y, p_a, p_k, p_ret, p_updates, p_hits

ptVars == <<p_pc, p_in, p_x, p_y, p_a, p_k, p_ret, p_updates, p_hits>>

\* The process: main's position pc, its arguments to julia_rgb (w, h, bnd), the
\* team size nthr, the pointer rgb ("uninit", "NULL" or "buf"), the heap block
\* (heap is "none", "live" or "freed"; mem its bytes, rgb[k] at mem[k + 1], -1 for
\* a byte never written), the rows the dynamic schedule has not handed out yet, and each
\* worker's position and private i, j, k, juliaValue.
VARIABLES pc, w, h, bnd, nthr, rgb, heap, mem, unassigned, t_pc, t_i, t_j, t_k, t_jv

\* The output file (file_unit is "none", "NULL", "open" or "closed"), what was
\* printed, and whether fwrite was handed a byte nobody had written.
VARIABLES file_unit, fexists, fbytes, console, readUnwritten

\* Bookkeeping for the properties: stores issued at each offset of rgb and by
\* whom (worker, i, j), stores issued outside [0, 3*w*h), evaluations of each pixel.
VARIABLES wcount, wby, oob, evals

procVars == <<pc, w, h, bnd, nthr, rgb, heap, mem, unassigned, t_pc, t_i, t_j, t_k, t_jv>>

ioVars == <<file_unit, fexists, fbytes, console, readUnwritten>>

ghostVars == <<wcount, wby, oob, evals>>

procVarsButPc == <<w, h, bnd, nthr, rgb, heap, mem, unassigned, t_pc, t_i, t_j, t_k, t_jv>>

\* The int expressions that size and index the buffer, evaluated one after
\* the other: the position q_pc, the values of w and h, of malloc's argument,
\* of a pixel's i, j, k and k + 2, of fwrite's count and of the four header
\* expressions.  A value is [ok, v]: ok is FALSE when the expression overflowed.
VARIABLES q_pc, q_w, q_h, q_n, q_i, q_j, q_k, q_k2, q_cnt, q_hdr

intVars == <<q_pc, q_w, q_h, q_n, q_i, q_j, q_k, q_k2, q_cnt, q_hdr>>

vars == <<ptVars, procVars, ioVars, ghostVars, intVars>>

(***************************************************************************)
(* julia_point, step by step                                               *)
(***************************************************************************)

\* Largest w and h a call of julia_point is given.
MaxPtDim == 4

PtInputs ==
    {[w |-> ww, h |-> hh, b |-> bb, i |-> ii, j |-> jj] :
        ww \in 2..MaxPtDim, hh \in 2..MaxPtDim, bb \in {MainBounds, SkewBounds},
        ii \in 0..(MaxPtDim - 1), jj \in 0..(MaxPtDim - 1)}

PtInit ==
    /\ p_pc = "entry"
    /\ p_in \in {c \in PtInputs : c.i < c.w /\ c.j < c.h}
    /\ p_x = FZero
    /\ p_y = FZero
    /\ p_a = [ar |-> FZero, ai |-> FZero]
    /\ p_k = 0
    /\ p_ret = -1
    /\ p_updates = 0
    /\ p_hits = 0

PtIdle ==
    /\ p_pc = "off"
    /\ p_in = [w |-> 2, h |-> 2, b |-> MainBounds, i |-> 0, j |-> 0]
    /\ p_x = FZero
    /\ p_y = FZero
    /\ p_a = [ar |-> FZero, ai |-> FZero]
    /\ p_k = 0
    /\ p_ret = -1
    /\ p_updates = 0
    /\ p_hits = 0

\* x = ...; y = ...; ar = x; ai = y; k = 0
PtMap ==
    /\ p_pc = "entry"
    /\ p_x' = MapCoord(p_in.w, p_in.b.xl, p_in.b.xr, p_in.i)
    /\ p_y' = MapCoord(p_in.h, p_in.b.yb, p_in.b.yt, p_in.j)
    /\ p_a' = [ar |-> p_x', ai |-> p_y']
    /\ p_k' = 0
    /\ p_pc' = "loop"
    /\ UNCHANGED <<p_in, p_ret, p_updates, p_hits>>
    /\ UNCHANGED <<procVars, ioVars, ghostVars, intVars>>

\* One trip: the update, then the test; return 0 or k++.  p_updates counts the
\* updates made and p_hits those after which the threshold was exceeded.
PtIter ==
    /\ p_pc = "loop"
    /\ LoopCond(p_k)
    /\ p_a' = Update(p_a)
    /\ p_updates' = p_updates + 1
    /\ p_hits' = p_hits + (IF FLt(FromInt(1000), FAdd(FMul(p_a'.ar, p_a'.ar), FMul(p_a'.ai, p_a'.ai))) THEN 1 ELSE 0)
    /\ IF Escapes(p_a')
       THEN p_pc' = "ret" /\ p_ret' = 0 /\ p_k' = p_k
       ELSE p_pc' = "loop" /\ p_ret' = p_ret /\ p_k' = p_k + 1
    /\ UNCHANGED <<p_in, p_x, p_y>>
    /\ UNCHANGED <<procVars, ioVars, ghostVars, intVars>>

\* The loop ran out: return 1.
PtExit ==
    /\ p_pc = "loop"
    /\ ~LoopCond(p_k)
    /\ p_pc' = "ret"
    /\ p_ret' = 1
    /\ UNCHANGED <<p_in, p_x, p_y, p_a, p_k, p_updates, p_hits>>
    /\ UNCHANGED <<procVars, ioVars, ghostVars, intVars>>

(***************************************************************************)
(* main and julia_rgb: the parallel fill                                   *)
(***************************************************************************)

\* Largest w and h main hands to julia_rgb, and the largest team.
MaxW == 2

MaxH == 2

MaxThreads == 2

Threads == 1..MaxThreads

FillBounds == {MainBounds, ZoomBounds}

\* julia_point on every pixel of every grid of the model, computed once.
\* (f @@ <<>> is f, tabulated.)
JuliaTable ==
    [c \in (2..MaxW) \X (2..MaxH) \X FillBounds \X (0..(MaxW - 1)) \X (0..(MaxH - 1)) |->
        IF c[4] < c[1] /\ c[5] < c[2]
        THEN julia_point(c[1], c[2], c[3].xl, c[3].xr, c[3].yb, c[3].yt, c[4], c[5])
        ELSE -1] @@ <<>>

\* KSlot without private(k): one k for the whole team.
KSlot_shared(t) == 1

\* private(i, j, k): worker t's own copy of k.
KSlot(t) == t

\* for (j = 0; j < h; ++j)
RowCond(j, hh) == j < hh

\* ColCond stopping one column short.
ColCond_short(i, ww) == i < ww - 1

\* for (i = 0; i < w; ++i)
ColCond(i, ww) == i < ww

\* PixelOffset with a stride of two bytes.
PixelOffset_stride2(i, j, ww) == (j * ww + i) * 2

\* k = (j * w + i) * 3
PixelOffset(i, j, ww) == (j * ww + i) * 3

\* PixelByte with the two colours exchanged.
PixelByte_inverted(jv) == 255 * jv

\* 255 * (1 - juliaValue)
PixelByte(jv) == 255 * (1 - jv)

\* Conversion of an int to unsigned char.
UChar(v) == v % 256

ProcInit ==
    /\ pc = "main"
    /\ w \in 2..MaxW
    /\ h \in 2..MaxH
    /\ bnd \in FillBounds
    /\ nthr \in Threads
    /\ rgb = "uninit"
    /\ heap = "none"
    /\ mem = <<>>
    /\ unassigned = {}
    /\ t_pc = [t \in Threads |-> "idle"]
    /\ t_i = [t \in Threads |-> 0]
    /\ t_j = [t \in Threads |-> 0]
    /\ t_k = [t \in Threads |-> 0]
    /\ t_jv = [t \in Threads |-> 0]

IoInit ==
    /\ file_unit = "none"
    /\ fexists = FALSE
    /\ fbytes = <<>>
    /\ console = <<>>
    /\ readUnwritten = FALSE

GhostInit ==
    /\ wcount = [k \in 0..(3 * w * h - 1) |-> 0]
    /\ wby = [k \in 0..(3 * w * h - 1) |-> {}]
    /\ oob = 0
    /\ evals = [px \in (0..(w - 1)) \X (0..(h - 1)) |-> 0]

\* main, lines 64-71: the banner, then the call of julia_rgb.
MainStart ==
    /\ pc = "main"
    /\ console' = Append(console, "JULIA_SET: C version")
    /\ pc' = "malloc"
    /\ UNCHANGED <<w, h, bnd, nthr, rgb, heap, mem, unassigned, t_pc, t_i, t_j, t_k, t_jv>>
    /\ UNCHANGED <<file_unit, fexists, fbytes, readUnwritten, ghostVars, ptVars, intVars>>

\* rgb = malloc(w * h * 3): a block of bytes nobody has written, or NULL.  The
\* result is not tested.
Malloc ==
    /\ pc = "malloc"
    /\ \/ /\ rgb' = "buf"
          /\ heap' = "live"
          /\ mem' = SubSeq([x \in 1..(w * h * 3) |-> -1], 1, w * h * 3)
       \/ /\ rgb' = "NULL"
          /\ UNCHANGED <<heap, mem>>
    /\ pc' = "fork"
    /\ UNCHANGED <<w, h, bnd, nthr, unassigned, t_pc, t_i, t_j, t_k, t_jv>>
    /\ UNCHANGED <<ioVars, ghostVars, ptVars, intVars>>

\* #pragma omp parallel for schedule(dynamic): the team starts, the rows of the
\* loop are the work to hand out.
Fork ==
    /\ pc = "fork"
    /\ unassigned' = {j \in 0..h : RowCond(j, h)}
    /\ t_pc' = [t \in Threads |-> IF t <= nthr THEN "grab" ELSE "idle"]
    /\ pc' = "par"
    /\ UNCHANGED <<w, h, bnd, nthr, rgb, heap, mem, t_i, t_j, t_k, t_jv>>
    /\ UNCHANGED <<ioVars, ghostVars, ptVars, intVars>>

\* After ++i, or i = 0: back into the body, or on to the next row.
AfterCol(i) == IF ColCond(i, w) THEN "eval" ELSE "grab"

\* Worker t asks the schedule for a row: any row not handed out yet, or none
\* is left and t waits at the barrier that ends the loop.
Grab(t) ==
    /\ pc = "par"
    /\ t_pc[t] = "grab"
    /\ \/ /\ unassigned # {}
          /\ \E r \in unassigned :
                /\ unassigned' = unassigned \ {r}
                /\ t_j' = [t_j EXCEPT ![t] = r]
          /\ t_i' = [t_i EXCEPT ![t] = 0]
          /\ t_pc' = [t_pc EXCEPT ![t] = AfterCol(0)]
       \/ /\ unassigned = {}
          /\ t_pc' = [t_pc EXCEPT ![t] = "done"]
          /\ UNCHANGED <<unassigned, t_i, t_j>>
    /\ UNCHANGED <<pc, w, h, bnd, nthr, rgb, heap, mem, t_k, t_jv>>
    /\ UNCHANGED <<ioVars, ghostVars, ptVars, intVars>>

\* int juliaValue = julia_point(w, h, xl, xr, yb, yt, i, j);
Eval(t) ==
    /\ pc = "par"
    /\ t_pc[t] = "eval"
    /\ t_jv' = [t_jv EXCEPT ![t] = JuliaTable[<<w, h, bnd, t_i[t], t_j[t]>>]]
    /\ evals' = [evals EXCEPT ![<<t_i[t], t_j[t]>>] = @ + 1]
    /\ t_pc' = [t_pc EXCEPT ![t] = "setk"]
    /\ UNCHANGED <<pc, w, h, bnd, nthr, rgb, heap, mem, unassigned, t_i, t_j, t_k>>
    /\ UNCHANGED <<ioVars, wcount, wby, oob, ptVars, intVars>>

\* k = (j * w + i) * 3;
SetK(t) ==
    /\ pc = "par"
    /\ t_pc[t] = "setk"
    /\ t_k' = [t_k EXCEPT ![KSlot(t)] = PixelOffset(t_i[t], t_j[t], w)]
    /\ t_pc' = [t_pc EXCEPT ![t] = "st0"]
    /\ UNCHANGED <<pc, w, h, bnd, nthr, rgb, heap, mem, unassigned, t_i, t_j, t_jv>>
    /\ UNCHANGED <<ioVars, ghostVars, ptVars, intVars>>

\* k is an offset into the block.
InBlock(k) == k >= 0 /\ k < Len(mem)

StorePc(n) == <<"st0", "st1", "st2">>[n + 1]

\* The store is on the books: at its offset when that is one of the block's.
Booked(t, k) ==
    IF k \in DOMAIN wcount
    THEN /\ wcount' = [wcount EXCEPT ![k] = @ + 1]
         /\ wby' = [wby EXCEPT ![k] = @ \cup {<<t, t_i[t], t_j[t]>>}]
         /\ oob' = oob
    ELSE /\ oob' = oob + 1
         /\ UNCHANGED <<wcount, wby>>

\* Worker t moves past store n; past the last one, ++i and the loop test.
Advance(t, n) ==
    IF n < 2
    THEN /\ t_pc' = [t_pc EXCEPT ![t] = StorePc(n + 1)]
         /\ t_i' = t_i
    ELSE /\ t_pc' = [t_pc EXCEPT ![t] = AfterCol(t_i[t] + 1)]
         /\ t_i' = [t_i EXCEPT ![t] = @ + 1]

\* rgb[k] = 255 * (1 - juliaValue); rgb[k + 1] = (the same); rgb[k + 2] = 255;
\* A store through NULL or past the block is undefined: the process takes a
\* fault, or the byte lands somewhere else and the worker goes on.
Store(t, n) ==
    /\ pc = "par"
    /\ t_pc[t] = StorePc(n)
    /\ LET k == t_k[KSlot(t)] + n
           v == IF n = 2 THEN 255 ELSE UChar(PixelByte(t_jv[t]))
       IN \/ /\ rgb = "buf" /\ InBlock(k)
             /\ mem' = [mem EXCEPT ![k + 1] = v]
             /\ Booked(t, k)
             /\ Advance(t, n)
             /\ pc' = pc
          \/ /\ ~(rgb = "buf" /\ InBlock(k))
             /\ pc' = "fault"
             /\ UNCHANGED <<mem, t_pc, t_i, wcount, wby, oob>>
          \/ /\ ~(rgb = "buf" /\ InBlock(k))
             /\ Booked(t, k)
             /\ Advance(t, n)
             /\ UNCHANGED <<pc, mem>>
    /\ UNCHANGED <<w, h, bnd, nthr, rgb, heap, unassigned, t_j, t_k, t_jv>>
    /\ UNCHANGED <<ioVars, evals, ptVars, intVars>>

\* The implicit barrier that ends the parallel loop: every worker of the team
\* has arrived.
Join ==
    /\ pc = "par"
    /\ \A t \in Threads : t <= nthr => t_pc[t] = "done"
    /\ pc' = "ret"
    /\ UNCHANGED <<w, h, bnd, nthr, rgb, heap, mem, unassigned, t_pc, t_i, t_j, t_k, t_jv>>
    /\ UNCHANGED <<ioVars, ghostVars, ptVars, intVars>>

\* return rgb; and main calls tga_write(w, h, rgb, "julia_set.tga").
JuliaReturn ==
    /\ pc = "ret"
    /\ pc' = "fopen"
    /\ UNCHANGED <<w, h, bnd, nthr, rgb, heap, mem, unassigned, t_pc, t_i, t_j, t_k, t_jv>>
    /\ UNCHANGED <<ioVars, ghostVars, ptVars, intVars>>

(***************************************************************************)
(* tga_write, and the rest of main                                         *)
(***************************************************************************)

\* C's / and % on ints (the quotient truncates towards zero), for b > 0.
CDiv(a, b) == IF a >= 0 THEN a \div b ELSE 0 - ((0 - a) \div b)

CRem(a, b) == a - b * CDiv(a, b)

\* unsigned char header1[12] = {0, 0, 2, 0, 0, 0, 0, 0, 0, 0, 0, 0};
header1 == <<0, 0, 2, 0, 0, 0, 0, 0, 0, 0, 0, 0>>

\* unsigned char header2[6] = {w % 256, w / 256, h % 256, h / 256, 24, 0};
header2(ww, hh) ==
    <<UChar(CRem(ww, 256)), UChar(CDiv(ww, 256)), UChar(CRem(hh, 256)), UChar(CDiv(hh, 256)),
      UChar(24), UChar(0)>>

\* DataCount counting pixels, not bytes.
DataCount_pixels(ww, hh) == ww * hh

\* The count of the third fwrite: 3 * w * h.
DataCount(ww, hh) == 3 * ww * hh

\* The n bytes fwrite takes from rgb[0], rgb[1], ...; -1 stands for the
\* indeterminate value of a byte that was never written or is not the block's.
BufRead(n) == SubSeq([x \in 1..n |-> IF InBlock(x - 1) THEN mem[x] ELSE -1], 1, n)

\* One of those n bytes is indeterminate.
ReadsUnwritten(n) == \E k \in 0..(n - 1) : ~InBlock(k) \/ mem[k + 1] = -1

\* file_unit = fopen(filename, "wb"): the file is created or emptied, or the
\* call fails and returns NULL.  The result is not tested.
TgaOpen ==
    /\ pc = "fopen"
    /\ \/ /\ file_unit' = "open"
          /\ fexists' = TRUE
          /\ fbytes' = <<>>
       \/ /\ file_unit' = "NULL"
          /\ UNCHANGED <<fexists, fbytes>>
    /\ pc' = "fwrite1"
    /\ UNCHANGED <<procVarsButPc, console, readUnwritten, ghostVars, ptVars, intVars>>

\* fwrite(header1, sizeof(unsigned char), 12, file_unit); a NULL stream is
\* undefined and faults in the C library.
TgaHeader1 ==
    /\ pc = "fwrite1"
    /\ \/ /\ file_unit = "open"
          /\ fbytes' = fbytes \o header1
          /\ pc' = "fwrite2"
       \/ /\ file_unit = "NULL"
          /\ pc' = "fault"
          /\ fbytes' = fbytes
    /\ UNCHANGED <<procVarsButPc, file_unit, fexists, console, readUnwritten, ghostVars, ptVars, intVars>>

\* fwrite(header2, sizeof(unsigned char), 6, file_unit);
TgaHeader2 ==
    /\ pc = "fwrite2"
    /\ fbytes' = fbytes \o header2(w, h)
    /\ pc' = "fwrite3"
    /\ UNCHANGED <<procVarsButPc, file_unit, fexists, console, readUnwritten, ghostVars, ptVars, intVars>>

\* fwrite(rgb, sizeof(unsigned char), 3 * w * h, file_unit); reading through
\* NULL is undefined: a fault, or the write fails and the file gets nothing.
TgaData ==
    /\ pc = "fwrite3"
    /\ \/ /\ rgb = "buf"
          /\ fbytes' = fbytes \o BufRead(DataCount(w, h))
          /\ readUnwritten' = ReadsUnwritten(DataCount(w, h))
          /\ pc' = "fclose"
       \/ /\ rgb # "buf"
          /\ pc' = "fault"
          /\ UNCHANGED <<fbytes, readUnwritten>>
       \/ /\ rgb # "buf"
          /\ pc' = "fclose"
          /\ UNCHANGED <<fbytes, readUnwritten>>
    /\ UNCHANGED <<procVarsButPc, file_unit, fexists, console, ghostVars, ptVars, intVars>>

\* fclose(file_unit); and the three printf lines.
TgaClose ==
    /\ pc = "fclose"
    /\ file_unit' = "closed"
    /\ console' = Append(console, "TGA_WRITE: Graphics data saved")
    /\ pc' = "free"
    /\ UNCHANGED <<procVarsButPc, fexists, fbytes, readUnwritten, ghostVars, ptVars, intVars>>

\* free(rgb); free(NULL) does nothing.
Free ==
    /\ pc = "free"
    /\ heap' = IF rgb = "buf" THEN "freed" ELSE heap
    /\ pc' = "end"
    /\ UNCHANGED <<w, h, bnd, nthr, rgb, mem, unassigned, t_pc, t_i, t_j, t_k, t_jv>>
    /\ UNCHANGED <<ioVars, ghostVars, ptVars, intVars>>

\* main, lines 81-87: the closing lines, and return 0.
MainEnd ==
    /\ pc = "end"
    /\ console' = Append(console, "JULIA_SET: Normal end of execution.")
    /\ pc' = "exit"
    /\ UNCHANGED <<procVarsButPc, file_unit, fexists, fbytes, readUnwritten, ghostVars, ptVars, intVars>>

(***************************************************************************)
(* The int arithmetic of main, julia_rgb and tga_write                     *)
(***************************************************************************)

\* INT_MAX of a 32-bit int.
IntMax == 2147483647

Abs(a) == IF a < 0 THEN 0 - a ELSE a

Known(a) == [ok |-> TRUE, v |-> a]

\* An expression whose evaluation overflowed: its value is undefined.
Undefined == [ok |-> FALSE, v |-> 0]

\* a * b on ints.
MulInt(a, b) ==
    IF ~a.ok \/ ~b.ok THEN Undefined
    ELSE IF a.v # 0 /\ Abs(b.v) > IntMax \div Abs(a.v) THEN Undefined
    ELSE Known(a.v * b.v)

\* a + b on ints.
AddInt(a, b) ==
    IF ~a.ok \/ ~b.ok THEN Undefined
    ELSE IF a.v >= 0 /\ b.v > IntMax - a.v THEN Undefined
    ELSE IF a.v < 0 /\ b.v < (0 - IntMax) - a.v THEN Undefined
    ELSE Known(a.v + b.v)

\* int size = 20 with seven more.
size_large == 20 + 7

\* int size = 20;
size == 20

\* The columns (rows) of a grid n wide (high) the pixel is taken from.
IntSamples(n) == {x \in {0, 1, 255, 256, n \div 2, n - 2, n - 1} : x >= 0 /\ x < n}

IntIdle ==
    /\ q_pc = "off"
    /\ q_w = Known(0) /\ q_h = Known(0) /\ q_n = Known(0)
    /\ q_i = 0 /\ q_j = 0
    /\ q_k = Known(0) /\ q_k2 = Known(0) /\ q_cnt = Known(0)
    /\ q_hdr = <<>>

IntInit ==
    /\ q_pc = "main"
    /\ q_w = Known(0) /\ q_h = Known(0) /\ q_n = Known(0)
    /\ q_i = 0 /\ q_j = 0
    /\ q_k = Known(0) /\ q_k2 = Known(0) /\ q_cnt = Known(0)
    /\ q_hdr = <<>>

\* Where the evaluation goes after a step that computed the values vs: on to
\* nxt, or nowhere once one of them is undefined.
IntGoes(vs, nxt) == IF \A x \in vs : x.ok THEN nxt ELSE "undefined"

\* int h = 1000 * size; int w = 1000 * size;
IntDims ==
    /\ q_pc = "main"
    /\ q_h' = MulInt(Known(1000), Known(size))
    /\ q_w' = MulInt(Known(1000), Known(size))
    /\ q_pc' = IntGoes({q_h', q_w'}, "malloc")
    /\ UNCHANGED <<q_n, q_i, q_j, q_k, q_k2, q_cnt, q_hdr>>
    /\ UNCHANGED <<ptVars, procVars, ioVars, ghostVars>>

\* malloc(w * h * 3 * sizeof(unsigned char)): w * h * 3 is an int.
IntAlloc ==
    /\ q_pc = "malloc"
    /\ q_n' = MulInt(MulInt(q_w, q_h), Known(3))
    /\ q_pc' = IntGoes({q_n'}, "fill")
    /\ UNCHANGED <<q_w, q_h, q_i, q_j, q_k, q_k2, q_cnt, q_hdr>>
    /\ UNCHANGED <<ptVars, procVars, ioVars, ghostVars>>

\* For a pixel (i, j) of the loop nest: k = (j * w + i) * 3; and the last
\* index used, k + 2.
IntPixel ==
    /\ q_pc = "fill"
    /\ \E i \in IntSamples(q_w.v), j \in IntSamples(q_h.v) :
          /\ q_i' = i
          /\ q_j' = j
          /\ q_k' = MulInt(AddInt(MulInt(Known(j), q_w), Known(i)), Known(3))
    /\ q_k2' = AddInt(q_k', Known(2))
    /\ q_pc' = IntGoes({q_k', q_k2'}, "fwrite")
    /\ UNCHANGED <<q_w, q_h, q_n, q_cnt, q_hdr>>
    /\ UNCHANGED <<ptVars, procVars, ioVars, ghostVars>>

\* The count of the third fwrite, 3 * w * h.
IntCount ==
    /\ q_pc = "fwrite"
    /\ q_cnt' = MulInt(MulInt(Known(3), q_w), q_h)
    /\ q_pc' = IntGoes({q_cnt'}, "header")
    /\ UNCHANGED <<q_w, q_h, q_n, q_i, q_j, q_k, q_k2, q_hdr>>
    /\ UNCHANGED <<ptVars, procVars, ioVars, ghostVars>>

\* The ints w % 256, w / 256, h % 256, h / 256, before they are stored in
\* header2's unsigned chars.
IntHeader ==
    /\ q_pc = "header"
    /\ q_hdr' = <<CRem(q_w.v, 256), CDiv(q_w.v, 256), CRem(q_h.v, 256), CDiv(q_h.v, 256)>>
    /\ q_pc' = "done"
    /\ UNCHANGED <<q_w, q_h, q_n, q_i, q_j, q_k, q_k2, q_cnt>>
    /\ UNCHANGED <<ptVars, procVars, ioVars, ghostVars>>

(***************************************************************************)
(* Specifications                                                          *)
(***************************************************************************)

Init == ProcInit /\ IoInit /\ GhostInit /\ PtIdle /\ IntIdle

Next ==
    \/ MainStart
    \/ Malloc
    \/ Fork
    \/ \E t \in Threads : Grab(t)
    \/ \E t \in Threads : Eval(t)
    \/ \E t \in Threads : SetK(t)
    \/ \E t \in Threads : \E n \in 0..2 : Store(t, n)
    \/ Join
    \/ JuliaReturn
    \/ TgaOpen
    \/ TgaHeader1
    \/ TgaHeader2
    \/ TgaData
    \/ TgaClose
    \/ Free
    \/ MainEnd

\* The whole program: main, the parallel fill, the encoder.
Spec == Init /\ [][Next]_vars

NextPoint == PtMap \/ PtIter \/ PtExit

ProcIdle ==
    /\ pc = "off"
    /\ w = 2
    /\ h = 2
    /\ bnd = MainBounds
    /\ nthr = 1
    /\ rgb = "uninit"
    /\ heap = "none"
    /\ mem = <<>>
    /\ unassigned = {}
    /\ t_pc = [t \in Threads |-> "idle"]
    /\ t_i = [t \in Threads |-> 0]
    /\ t_j = [t \in Threads |-> 0]
    /\ t_k = [t \in Threads |-> 0]
    /\ t_jv = [t \in Threads |-> 0]

GhostIdle ==
    /\ wcount = <<>>
    /\ wby = <<>>
    /\ oob = 0
    /\ evals = <<>>

InitPoint == PtInit /\ ProcIdle /\ IoInit /\ GhostIdle /\ IntIdle

\* One call of julia_point on each input of PtInputs.
SpecPoint == InitPoint /\ [][NextPoint]_vars

\* The (w, h) tga_write is called with; the widest and highest have no rows
\* or no columns of pixels.
TgaSizes ==
    {<<1, 1>>, <<2, 2>>, <<3, 2>>, <<2, 3>>, <<300, 10>>, <<10, 300>>, <<256, 1>>, <<255, 257>>,
     <<65535, 1>>, <<1, 65535>>, <<65536, 0>>, <<70000, 0>>, <<0, 65537>>}

\* The bytes of the buffer tga_write is called with: any bytes will do.
TgaPatterns == {0, 1, 2}

\* tga_write called on a buffer of 3 * w * h bytes.
TgaInit ==
    /\ pc = "fopen"
    /\ \E sz \in TgaSizes : w = sz[1] /\ h = sz[2]
    /\ bnd = MainBounds
    /\ nthr = 1
    /\ rgb = "buf"
    /\ heap = "live"
    /\ \E pt \in TgaPatterns : mem = SubSeq([x \in 1..(3 * w * h) |-> (x * (2 * pt + 1) + 5 * pt) % 256], 1, 3 * w * h)
    /\ unassigned = {}
    /\ t_pc = [t \in Threads |-> "idle"]
    /\ t_i = [t \in Threads |-> 0]
    /\ t_j = [t \in Threads |-> 0]
    /\ t_k = [t \in Threads |-> 0]
    /\ t_jv = [t \in Threads |-> 0]

NextTga == TgaOpen \/ TgaHeader1 \/ TgaHeader2 \/ TgaData \/ TgaClose

InitTga == TgaInit /\ IoInit /\ GhostIdle /\ PtIdle /\ IntIdle

\* One call of tga_write on each input of TgaInit.
SpecTga == InitTga /\ [][NextTga]_vars

NextInt == IntDims \/ IntAlloc \/ IntPixel \/ IntCount \/ IntHeader

InitInt == IntInit /\ ProcIdle /\ IoInit /\ GhostIdle /\ PtIdle

\* The int expressions of one run, for a pixel of the grid.
SpecInt == InitInt /\ [][NextInt]_vars

\* The evaluator's values stay where the [s, m, e] picture of binary32 is exact.
PtInRange == FInRange(p_a.ar) /\ FInRange(p_a.ai) /\ FInRange(p_x) /\ FInRange(p_y)

(***************************************************************************)
(* Properties of the parallel fill                                         *)
(***************************************************************************)

Pixels == (0..(w - 1)) \X (0..(h - 1))

\* The parallel loop is over and julia_rgb has returned or is about to.
FillDone == pc \in {"ret", "fopen", "fwrite1", "fwrite2", "fwrite3", "fclose", "free", "end", "exit"}

InStore(t) == t <= nthr /\ t_pc[t] \in {"st0", "st1", "st2"}

\* C1: no offset of the buffer is stored to twice and no pixel is evaluated
\* twice at any time, and when the parallel fill is over every pixel (i, j) of
\* [0,w) x [0,h) has been evaluated exactly once and each of the 3*w*h offsets
\* has been stored to exactly once, the three of a pixel by one and the same
\* worker; no store went anywhere else.
EachPixelOnce ==
    /\ \A k \in DOMAIN wcount : wcount[k] <= 1
    /\ \A px \in DOMAIN evals : evals[px] <= 1
    /\ oob = 0
    /\ FillDone =>
        /\ DOMAIN evals = Pixels
        /\ \A px \in Pixels : evals[px] = 1
        /\ DOMAIN wcount = 0..(3 * w * h - 1)
        /\ \A k \in 0..(3 * w * h - 1) : wcount[k] = 1
        /\ \A px \in Pixels :
              \E t \in 1..nthr : \A n \in 0..2 :
                 wby[3 * (px[2] * w + px[1]) + n] = {<<t, px[1], px[2]>>}

\* C1's case: a fill of a grid with w > 1 and h > 1 is over and two workers
\* each wrote part of it.
FillSharedByTwo ==
    /\ pc = "ret"
    /\ w > 1 /\ h > 1
    /\ \E k1, k2 \in DOMAIN wby : \E e1 \in wby[k1], e2 \in wby[k2] : e1[1] # e2[1]

\* C2: the offset map (i, j) -> 3*(j*w + i) sends distinct pixels to disjoint
\* three-byte ranges inside [0, 3*w*h); a worker that is storing holds in its
\* k the offset of its own (i, j); two workers that are storing hold ranges
\* that do not meet; and no offset has been stored to by two pixels or two
\* workers, nor any store gone outside the buffer.
NoWriteRace ==
    /\ \A p \in Pixels, q \in Pixels :
          p # q => (3 * (p[2] * w + p[1]) + 2 < 3 * (q[2] * w + q[1])
                    \/ 3 * (q[2] * w + q[1]) + 2 < 3 * (p[2] * w + p[1]))
    /\ \A p \in Pixels : 3 * (p[2] * w + p[1]) >= 0 /\ 3 * (p[2] * w + p[1]) + 2 < 3 * w * h
    /\ \A t \in Threads :
          InStore(t) =>
             /\ <<t_i[t], t_j[t]>> \in Pixels
             /\ t_k[KSlot(t)] = 3 * (t_j[t] * w + t_i[t])
    /\ \A t1 \in Threads, t2 \in Threads :
          (t1 # t2 /\ InStore(t1) /\ InStore(t2)) =>
             (t_k[KSlot(t1)] + 2 < t_k[KSlot(t2)] \/ t_k[KSlot(t2)] + 2 < t_k[KSlot(t1)])
    /\ \A k \in DOMAIN wby : Cardinality(wby[k]) <= 1
    /\ oob = 0

\* C2's case: two workers are in the middle of their stores at the same time.
TwoWorkersStoring ==
    /\ pc = "par"
    /\ rgb = "buf"
    /\ \E t1 \in Threads, t2 \in Threads : t1 # t2 /\ InStore(t1) /\ InStore(t2)

\* The body of the loop for pixel (i, j), run on buffer m.
SeqStore(m, i, j) ==
    [m EXCEPT ![PixelOffset(i, j, w) + 1] = UChar(PixelByte(JuliaTable[<<w, h, bnd, i, j>>])),
              ![PixelOffset(i, j, w) + 2] = UChar(PixelByte(JuliaTable[<<w, h, bnd, i, j>>])),
              ![PixelOffset(i, j, w) + 3] = 255]

\* The loop nest run by one worker in program order from pixel number n on
\* (pixel number j*w + i: j outer, i inner).
RECURSIVE SeqFill(_, _)
SeqFill(m, n) ==
    IF n >= w * h THEN m ELSE SeqFill(SeqStore(m, n % w, n \div w), n + 1)

\* C3: whatever the team size, the hand-out of rows and the interleaving, the
\* buffer julia_rgb returns is byte for byte the one the loop nest leaves when
\* it is run in program order on the same arguments.
ScheduleIndependent ==
    (FillDone /\ rgb = "buf") => mem = SeqFill([x \in 1..(3 * w * h) |-> -1], 0)

\* C3's case: a buffer with pixels of both kinds, filled by two workers.
TwoWorkerBuffer ==
    /\ pc = "ret"
    /\ rgb = "buf"
    /\ nthr = 2
    /\ \E k1, k2 \in DOMAIN wby : \E e1 \in wby[k1], e2 \in wby[k2] : e1[1] # e2[1]
    /\ \E k \in DOMAIN mem : mem[k] = 0

\* C6: in the buffer julia_rgb returns, of length 3*w*h, the bytes of pixel
\* (i, j) at offset 3*(j*w + i) are 255, 255, 255 when julia_point returned 0
\* (escaped) and 0, 0, 255 when it returned 1 (in the set); no byte holds
\* anything but 0 or 255.
RenderedBytes ==
    (FillDone /\ rgb = "buf") =>
        /\ Len(mem) = 3 * w * h
        /\ \A k \in DOMAIN mem : mem[k] \in {0, 255}
        /\ \A px \in Pixels :
              LET k  == 3 * (px[2] * w + px[1])
                  jv == JuliaTable[<<w, h, bnd, px[1], px[2]>>]
              IN /\ jv \in {0, 1}
                 /\ mem[k + 1] = (IF jv = 0 THEN 255 ELSE 0)
                 /\ mem[k + 2] = (IF jv = 0 THEN 255 ELSE 0)
                 /\ mem[k + 3] = 255

\* C6's case: a returned buffer that holds a pixel in the set and one escaped.
BothKindsRendered ==
    /\ FillDone
    /\ rgb = "buf"
    /\ \E px \in Pixels : mem[3 * (px[2] * w + px[1]) + 1] = 0
    /\ \E px \in Pixels : mem[3 * (px[2] * w + px[1]) + 1] = 255

\* C4: the buffer is allocated before any worker's store; once julia_rgb has
\* returned every worker is at the barrier and all 3*w*h bytes are written;
\* the encoder is never handed an unwritten byte; the block is freed only
\* after the encoder has closed the file, and nothing runs on it afterwards.
LifecycleOrdered ==
    /\ ((\E k \in DOMAIN wcount : wcount[k] > 0) \/ oob > 0) => heap # "none"
    /\ (FillDone /\ pc # "ret") =>
          /\ \A t \in Threads : t <= nthr => t_pc[t] = "done"
          /\ \A k \in DOMAIN wcount : wcount[k] = 1
    /\ pc \in {"fwrite3", "fclose"} => (heap = "live" /\ \A k \in DOMAIN mem : mem[k] # -1)
    /\ ~readUnwritten
    /\ heap = "freed" =>
          /\ pc \in {"end", "exit"}
          /\ file_unit = "closed"
          /\ \A t \in Threads : t_pc[t] \in {"done", "idle"}

\* C5: once malloc has returned NULL no store is issued, no file is created,
\* and the process ends neither in a fault nor by main's normal return: it
\* stops with an out-of-memory report.
AllocFailureFatal ==
    rgb = "NULL" =>
        /\ \A k \in DOMAIN wcount : wcount[k] = 0
        /\ oob = 0
        /\ ~fexists
        /\ pc \notin {"fault", "exit"}
        /\ pc \in {"fork", "abort"} \/ \A t \in Threads : ~InStore(t)
        /\ pc = "abort" => \E n \in DOMAIN console : console[n] = "out of memory"

(***************************************************************************)
(* Properties of julia_point                                               *)
(***************************************************************************)

ExactProduct(n, x) ==
    x.m = 0 \/ \E t \in 0..8 : (n * x.m) % Pow2(t) = 0 /\ (n * x.m) \div Pow2(t) < Pow2(24)

\* C9 as stated: pixel (0, 0) maps exactly to (xl, yb) and pixel (w-1, h-1)
\* exactly to (xr, yt), whatever the bounds.
CornersExact ==
    p_pc \in {"loop", "ret"} =>
        /\ (p_in.i = 0 /\ p_in.j = 0) => (FEq(p_x, p_in.b.xl) /\ FEq(p_y, p_in.b.yb))
        /\ (p_in.i = p_in.w - 1 /\ p_in.j = p_in.h - 1) =>
              (FEq(p_x, p_in.b.xr) /\ FEq(p_y, p_in.b.yt))

\* C9, amended: a coordinate of a corner pixel is exactly the bound when the
\* product of that bound and the divisor (w-1 or h-1) is a binary32 number.
CornersExactWhenRepresentable ==
    p_pc \in {"loop", "ret"} =>
        /\ (p_in.i = 0 /\ ExactProduct(p_in.w - 1, p_in.b.xl)) => FEq(p_x, p_in.b.xl)
        /\ (p_in.j = 0 /\ ExactProduct(p_in.h - 1, p_in.b.yb)) => FEq(p_y, p_in.b.yb)
        /\ (p_in.i = p_in.w - 1 /\ ExactProduct(p_in.w - 1, p_in.b.xr)) => FEq(p_x, p_in.b.xr)
        /\ (p_in.j = p_in.h - 1 /\ ExactProduct(p_in.h - 1, p_in.b.yt)) => FEq(p_y, p_in.b.yt)

\* C9's case: the far corner of a 4 x 3 grid on main's bounds has been mapped,
\* to (xr, yt).
FarCornerMapped ==
    /\ p_pc = "loop"
    /\ p_in.w = 4 /\ p_in.h = 3 /\ p_in.i = 3 /\ p_in.j = 2
    /\ p_in.b = MainBounds
    /\ ExactProduct(3, p_in.b.xr) /\ ExactProduct(2, p_in.b.yt)
    /\ FEq(p_x, p_in.b.xr) /\ FEq(p_y, p_in.b.yt)

\* The stepwise evaluator returns what the function julia_point returns.
PtAgrees ==
    p_pc = "ret" =>
        p_ret = julia_point(p_in.w, p_in.h, p_in.b.xl, p_in.b.xr, p_in.b.yb, p_in.b.yt, p_in.i, p_in.j)

(***************************************************************************)
(* Properties of tga_write                                                 *)
(***************************************************************************)

\* The file tga_write has closed holds 12 + 6 + 3*w*h bytes: the fixed header,
\* then w mod 256, w div 256, h mod 256, h div 256, 24, 0, then the buffer's
\* bytes in the buffer's order.
FileLayout ==
    /\ Len(fbytes) = 12 + 6 + 3 * w * h
    /\ \A x \in 1..12 : fbytes[x] = IF x = 3 THEN 2 ELSE 0
    /\ fbytes[13] = w % 256 /\ fbytes[14] = w \div 256
    /\ fbytes[15] = h % 256 /\ fbytes[16] = h \div 256
    /\ fbytes[17] = 24 /\ fbytes[18] = 0
    /\ \A x \in 1..Len(fbytes) : fbytes[x] \in 0..255
    /\ \A k \in 0..(3 * w * h - 1) : fbytes[18 + k + 1] = mem[k + 1]
    /\ (w = 300 /\ h = 10) => SubSeq(fbytes, 13, 18) = <<44, 1, 10, 0, 24, 0>>
    /\ (w = 2 /\ h = 2) => Len(fbytes) = 30

IntsFit ==
    /\ q_pc # "undefined"
    /\ q_w.ok /\ q_h.ok /\ q_n.ok /\ q_k.ok /\ q_k2.ok /\ q_cnt.ok
    /\ q_pc \notin {"main"} => (q_w.v = 20000 /\ q_h.v = 20000)
    /\ q_pc \in {"fill", "fwrite", "header", "done"} => q_n.v = 1200000000
    /\ q_pc \in {"fwrite", "header", "done"} =>
          /\ q_k.v = 3 * (q_j * 20000 + q_i)
          /\ q_k2.v = q_k.v + 2
          /\ q_k2.v <= 1199999999
          /\ q_k2.v < q_n.v
    /\ q_pc \in {"header", "done"} => q_cnt.v = 1200000000
    /\ q_pc = "done" =>
          /\ q_hdr = <<32, 78, 32, 78>>
          /\ \A x \in 1..4 : q_hdr[x] >= 0 /\ q_hdr[x] <= 255

\* C10's case: every expression has been evaluated for the last pixel of the
\* grid, whose k + 2 is the largest index of all.
LastPixelIndexed ==
    /\ q_pc = "done"
    /\ q_i = 19999 /\ q_j = 19999
    /\ q_k2.ok /\ q_k2.v = 1199999999

====
